---- MODULE Spec2Model ----
(***************************************************************************)
(* Pharma BD dashboard: the fetch clients (retry, fallback, exhaustion),   *)
(* the record normalizers (parse_fda, parse_trials), the aggregation into  *)
(* monthly counts and the module-level pipeline of the three variants      *)
(* app.py, app_patched.py and pharma_dashboard_v1.py.                      *)
(***************************************************************************)
EXTENDS Integers, Sequences, FiniteSets, TLC

VARIABLES
    h,             \* one application of a normalizer or of the aggregation
    call,          \* the running fetch call: its parameters and loop position
    requests,      \* the HTTP requests the call has issued, in order
    responses,     \* what the upstream answered to each of them
    waits,         \* the time.sleep calls of the call, in order
    observations,  \* the st.warning / st.error notices of the call, in order
    outcome,       \* how the call ended: a returned list or a raised exception
    inputs,        \* the run: which file, the selected phases, the limit slider
    ppc,           \* where the module-level script is
    ph_i,          \* the index of `for ph in phases`
    fda_df,        \* the approvals table
    trials_dfs,    \* the list of per-phase trial tables
    combined,      \* the combined table
    counts,        \* the table the chart is drawn from
    page,          \* what the script has put on the page, in order
    fetched        \* per source, in order: how its fetch and its parse ended

pvars == <<inputs, ppc, ph_i, fda_df, trials_dfs, combined, counts, page, fetched>>

\* ------------------------------------------------------------------ bounds
\* Longest raw list (approval entries, trials) the normalizer harness draws.
MaxEntries == 2
\* Longest combined table the aggregation harness draws.
MaxRows == 5
\* Largest `retries` argument a directly called fetch client is given.
MaxRetries == 3

\* ------------------------------------------------------- program constants
\* retries=3 of fetch_fda_approvals.
FdaDefaultRetries == 3
\* retries=2 of fetch_clinical_trials.
CtDefaultRetries == 2
\* backoff=1.5 and the literal 1.5 of fetch_clinical_trials, in tenths.
DefaultBackoff == 15
\* max_studies=200 at the call of fetch_clinical_trials.
MaxStudies == 200
\* The cap openFDA puts on limit.
LimitCap == 100

\* ------------------------------------------------------- JSON scalar values
\* A JSON scalar as Python sees it: None, or a string, held as its sequence of
\* characters.  Characters 0..9 are the digits; a character above 9 is a
\* character that is no digit.
None == [isNone |-> TRUE, chars |-> <<>>]

Str(cs) == [isNone |-> FALSE, chars |-> cs]

\* Python truthiness of such a value: None and "" are falsy.
Truthy(v) == ~v.isNone /\ Len(v.chars) > 0

\* dict.get(key) / dict.get(key, default) of a key holding a list: the key is
\* absent, holds null, or holds a list.
Absent == [kind |-> "absent", items |-> <<>>]

Null == [kind |-> "null", items |-> <<>>]

List(xs) == [kind |-> "list", items |-> xs]

\* ------------------------------------------------------------ pd.to_datetime
NaT == [y |-> 0, m |-> 0, d |-> 0]

IsLeap(y) == (y % 4 = 0 /\ y % 100 # 0) \/ y % 400 = 0

DaysIn(y, m) ==
    IF m = 2 THEN (IF IsLeap(y) THEN 29 ELSE 28)
    ELSE IF m \in {4, 6, 9, 11} THEN 30 ELSE 31

IsDigits(cs) == \A i \in 1..Len(cs) : cs[i] \in 0..9

\* pd.to_datetime(value, errors="coerce") on the strings of this model: an
\* eight-digit string is read as YYYYMMDD and is a Timestamp when that is a
\* calendar date; None, "" and every string holding a character that is no
\* digit coerce to NaT.  (The model's strings are of these shapes only.)
to_datetime(v) ==
    IF v.isNone \/ Len(v.chars) # 8 \/ ~IsDigits(v.chars) THEN NaT
    ELSE LET c == v.chars
             y == c[1] * 1000 + c[2] * 100 + c[3] * 10 + c[4]
             m == c[5] * 10 + c[6]
             d == c[7] * 10 + c[8]
         IN  IF y >= 1 /\ m \in 1..12 /\ d >= 1 /\ d <= DaysIn(y, m)
             THEN [y |-> y, m |-> m, d |-> d]
             ELSE NaT

ValidDate(t) == t.y >= 1 /\ t.m \in 1..12 /\ t.d >= 1 /\ t.d <= DaysIn(t.y, t.m)

\* df["date"] = pd.to_datetime(df["date"], errors="coerce")
coerce_dates(records) ==
    [i \in 1..Len(records) |-> [records[i] EXCEPT !.date = to_datetime(@)]]

KeepsDate(r) == r.date # NaT

\* dropna_date with the dropna left out.
dropna_date_missing(df) == df

\* df.dropna(subset=["date"])
dropna_date(df) == SelectSeq(df, KeepsDate)

\* pd.DataFrame(records) followed by the guarded coercion and dropna.
DataFrame_dated(records) ==
    IF records = <<>> THEN <<>> ELSE dropna_date(coerce_dates(records))

\* A normalizer either returns a table or raises.
Returned(df) == [ok |-> TRUE, exc |-> "", df |-> df]

Raised(exc) == [ok |-> FALSE, exc |-> exc, df |-> <<>>]

\* ------------------------------------------------------------------ parse_fda
\* fda_submission_records stopping at an entry's first dated submission.
fda_submission_records_first_only(sponsor, subs) ==
    LET dated == SelectSeq(subs, LAMBDA sub : Truthy(sub.submission_date))
    IN  IF dated = <<>> THEN <<>>
        ELSE << [source |-> "FDA", sponsor |-> sponsor,
                 date |-> dated[1].submission_date, phase |-> None,
                 trial_id |-> None,
                 submission_type |-> dated[1].submission_type,
                 submission_class |-> dated[1].submission_class_code] >>

RECURSIVE fda_submission_records(_, _)
\* The inner loop of parse_fda over one entry's submissions.
fda_submission_records(sponsor, subs) ==
    IF subs = <<>> THEN <<>>
    ELSE LET sub == Head(subs)
             approval_date == sub.submission_date
         IN  (IF Truthy(approval_date)
              THEN << [source |-> "FDA", sponsor |-> sponsor,
                       date |-> approval_date, phase |-> None,
                       trial_id |-> None,
                       submission_type |-> sub.submission_type,
                       submission_class |-> sub.submission_class_code] >>
              ELSE <<>>)
             \o fda_submission_records(sponsor, Tail(subs))

RECURSIVE fda_records(_)
\* The outer loop of parse_fda: entry.get("submissions", []) is [] for an absent
\* key and the items of a list.
fda_records(data) ==
    IF data = <<>> THEN <<>>
    ELSE fda_submission_records(Head(data).sponsor_name, Head(data).submissions.items)
         \o fda_records(Tail(data))

\* Iterating a null submissions value raises TypeError out of parse_fda.
fda_raises(data) == \E i \in 1..Len(data) : data[i].submissions.kind = "null"

parse_fda(data) ==
    IF fda_raises(data) THEN Raised("TypeError")
    ELSE Returned(DataFrame_dated(fda_records(data)))

\* --------------------------------------------------------------- parse_trials
\* trial.get(field, [""])[0]: what the subscript raises, "" when it does not.
first_exc(f) ==
    IF f.kind = "null" THEN "TypeError"
    ELSE IF f.kind = "list" /\ f.items = <<>> THEN "IndexError"
    ELSE ""

\* trial.get(field, [""])[0] when the subscript succeeds.
first_of(f) == IF f.kind = "absent" THEN Str(<<>>) ELSE f.items[1]

\* The exception one trial's three subscripts raise, in source order.
trial_exc(trial) ==
    IF first_exc(trial.NCTId) # "" THEN first_exc(trial.NCTId)
    ELSE IF first_exc(trial.Sponsors) # "" THEN first_exc(trial.Sponsors)
    ELSE first_exc(trial.CompletionDate)

RECURSIVE trials_exc(_)
\* The exception the loop of parse_trials raises: that of its first bad trial.
trials_exc(data) ==
    IF data = <<>> THEN ""
    ELSE IF trial_exc(Head(data)) # "" THEN trial_exc(Head(data))
    ELSE trials_exc(Tail(data))

RECURSIVE trial_records(_, _)
trial_records(data, phase) ==
    IF data = <<>> THEN <<>>
    ELSE LET trial == Head(data)
             trial_id == first_of(trial.NCTId)
             sponsor == first_of(trial.Sponsors)
             completion_date == first_of(trial.CompletionDate)
         IN  (IF Truthy(completion_date)
              THEN << [source |-> "ClinicalTrials.gov", sponsor |-> sponsor,
                       date |-> completion_date, phase |-> phase,
                       trial_id |-> trial_id,
                       submission_type |-> None,
                       submission_class |-> None] >>
              ELSE <<>>)
             \o trial_records(Tail(data), phase)

parse_trials(data, phase) ==
    IF trials_exc(data) # "" THEN Raised(trials_exc(data))
    ELSE Returned(DataFrame_dated(trial_records(data, phase)))

\* ---------------------------------------------------------------- aggregation
\* Timestamp.to_period("M"): truncation to (year, month).
to_period_M(t) == [y |-> t.y, m |-> t.m]

\* combined["month"] = combined["date"].dt.to_period("M"); the rows carry the
\* month beside the date from here on.
with_month(df) ==
    [i \in 1..Len(df) |->
        [f \in DOMAIN df[i] \cup {"month"} |->
            IF f = "month" THEN to_period_M(df[i].date) ELSE df[i][f]]]

MonthKey(p) == p.y * 12 + p.m

\* Sources sort as strings: "ClinicalTrials.gov" before "FDA".
SourceKey(s) == IF s = "ClinicalTrials.gov" THEN 0 ELSE 1

RECURSIVE SortMonths(_)
SortMonths(S) ==
    IF S = {} THEN <<>>
    ELSE LET lo == CHOOSE p \in S : \A q \in S : MonthKey(p) <= MonthKey(q)
         IN  <<lo>> \o SortMonths(S \ {lo})

RECURSIVE SortSources(_)
SortSources(S) ==
    IF S = {} THEN <<>>
    ELSE LET lo == CHOOSE s \in S : \A t \in S : SourceKey(s) <= SourceKey(t)
         IN  <<lo>> \o SortSources(S \ {lo})

Months(df) == {df[i].month : i \in 1..Len(df)}

Sources(df) == {df[i].source : i \in 1..Len(df)}

CountOf(df, mo, src) ==
    Cardinality({i \in 1..Len(df) : df[i].month = mo /\ df[i].source = src})

RECURSIVE Flatten(_)
Flatten(ss) == IF ss = <<>> THEN <<>> ELSE Head(ss) \o Flatten(Tail(ss))

\* combined.groupby([combined["month"], "source"]).size(): one entry per
\* observed (month, source), sorted by month then source.
groupby_size(df) ==
    LET ms == SortMonths(Months(df))
        ss == SortSources(Sources(df))
        row(mo) == SelectSeq([j \in 1..Len(ss) |->
                                 [month |-> mo, source |-> ss[j],
                                  n |-> CountOf(df, mo, ss[j])]],
                             LAMBDA e : e.n > 0)
    IN  Flatten([i \in 1..Len(ms) |-> row(ms[i])])

Has(series, mo, src) ==
    \E i \in 1..Len(series) : series[i].month = mo /\ series[i].source = src

ValueAt(series, mo, src) ==
    LET i == CHOOSE i \in 1..Len(series) :
                 series[i].month = mo /\ series[i].source = src
    IN  series[i].n

\* unstack_fill0 without the fill: the series as it is.
unstack_no_fill(series) == series

\* series.unstack(fill_value=0): one row per month of the index, one column per
\* source of the index, the cell of a missing pair filled with 0; held row by
\* row.
unstack_fill0(series) ==
    LET ms == SortMonths({series[i].month : i \in 1..Len(series)})
        ss == SortSources({series[i].source : i \in 1..Len(series)})
        row(mo) == [j \in 1..Len(ss) |->
                       [month |-> mo, source |-> ss[j],
                        n |-> IF Has(series, mo, ss[j])
                              THEN ValueAt(series, mo, ss[j]) ELSE 0]]
    IN  Flatten([i \in 1..Len(ms) |-> row(ms[i])])

\* The table `counts` the plot is drawn from.
monthly_counts(df) == unstack_fill0(groupby_size(df))

\* The tail of the pipeline on the concatenated frames: the month column is
\* added and the counts are built only for a non-empty table; an empty one
\* leaves no counts and shows the warning instead of the chart.
aggregate(df) ==
    IF df = <<>>
    THEN [combined |-> <<>>, counts |-> <<>>, view |-> "warning"]
    ELSE [combined |-> with_month(df),
          counts |-> monthly_counts(with_month(df)), view |-> "chart"]

\* ------------------------------------------------------------ harness inputs
Date_20221220 == Str(<<2, 0, 2, 2, 1, 2, 2, 0>>)

Date_20230115 == Str(<<2, 0, 2, 3, 0, 1, 1, 5>>)

Date_20230120 == Str(<<2, 0, 2, 3, 0, 1, 2, 0>>)

Date_20230210 == Str(<<2, 0, 2, 3, 0, 2, 1, 0>>)

\* Month 13: eight digits that are no calendar date.
Date_20231345 == Str(<<2, 0, 2, 3, 1, 3, 4, 5>>)

\* A date text with no digits in it, such as "TBD".
Date_text == Str(<<10, 11, 12>>)

Acme == Str(<<13, 14, 15, 16>>)

ORIG == Str(<<17, 18, 19, 20>>)

NCT1 == Str(<<21, 22, 23, 1>>)

Sub(date, type) ==
    [submission_date |-> date, submission_type |-> type,
     submission_class_code |-> None]

\* The submission lists an approval entry may carry.
SubLists ==
    { <<>>,
      << Sub(Date_20230115, ORIG) >>,
      << Sub(Date_20230115, ORIG), Sub(Date_20230210, None) >>,
      << Sub(Str(<<>>), ORIG), Sub(Date_20230120, ORIG) >>,
      << Sub(None, ORIG) >>,
      << Sub(Date_20231345, ORIG) >>,
      << Sub(Date_20221220, ORIG), Sub(Date_text, ORIG), Sub(Date_20230115, None) >> }

FdaEntries ==
    [sponsor_name : {Acme, None},
     submissions : {Absent, Null} \cup {List(xs) : xs \in SubLists}]

\* The raw approval lists of a given length.
FdaLists(n) == [1..n -> FdaEntries]

TrialEntries ==
    [NCTId : {Absent, List(<<>>), List(<<NCT1>>)},
     Sponsors : {List(<<>>), List(<<Acme>>)},
     CompletionDate : {Absent, Null, List(<<>>), List(<<Str(<<>>)>>),
                       List(<<None>>), List(<<Date_20230115>>),
                       List(<<Date_20230210, Date_20230120>>),
                       List(<<Date_20231345>>)}]

\* The raw trial lists of a given length.
TrialLists(n) == [1..n -> TrialEntries]

Stamps == {to_datetime(d) : d \in {Date_20221220, Date_20230115,
                                    Date_20230120, Date_20230210}}

FdaRow(t) ==
    [source |-> "FDA", sponsor |-> Acme, date |-> t, phase |-> None,
     trial_id |-> None, submission_type |-> ORIG, submission_class |-> None]

TrialRow(t) ==
    [source |-> "ClinicalTrials.gov", sponsor |-> Acme, date |-> t,
     phase |-> Str(<<>>), trial_id |-> NCT1, submission_type |-> None,
     submission_class |-> None]

\* The concatenated frames the aggregation may be handed: a approval rows
\* first, b trial rows after them, every date a Timestamp.
Table(f, g) ==
    [i \in 1..(Len(f) + Len(g)) |->
        IF i <= Len(f) THEN FdaRow(f[i]) ELSE TrialRow(g[i - Len(f)])]

\* ----------------------------------------------------------- harness machine
\* h is one application of a normalizer or of the aggregation to a drawn input.
HIdle == [kind |-> "idle", done |-> FALSE, data |-> <<>>, phase |-> Str(<<>>),
          res |-> Returned(<<>>), agg |-> aggregate(<<>>)]

HInit ==
    \/ \E n \in 0..MaxEntries : \E d \in FdaLists(n) :
          h = [HIdle EXCEPT !.kind = "fda", !.data = d]
    \/ \E n \in 0..MaxEntries : \E d \in TrialLists(n) :
          \E ph \in {Str(<<30, 2>>), Str(<<30, 3>>)} :
             h = [HIdle EXCEPT !.kind = "trials", !.data = d, !.phase = ph]
    \/ \E a \in 0..MaxRows : \E b \in 0..(MaxRows - a) :
          \E f \in [1..a -> Stamps], g \in [1..b -> Stamps] :
             h = [HIdle EXCEPT !.kind = "agg", !.data = Table(f, g)]

H_parse_fda ==
    /\ h.kind = "fda" /\ ~h.done
    /\ h' = [h EXCEPT !.res = parse_fda(h.data), !.done = TRUE]
    /\ UNCHANGED <<call, requests, responses, waits, observations, outcome, pvars>>

H_parse_trials ==
    /\ h.kind = "trials" /\ ~h.done
    /\ h' = [h EXCEPT !.res = parse_trials(h.data, h.phase), !.done = TRUE]
    /\ UNCHANGED <<call, requests, responses, waits, observations, outcome, pvars>>

H_aggregate ==
    /\ h.kind = "agg" /\ ~h.done
    /\ h' = [h EXCEPT !.agg = aggregate(h.data), !.done = TRUE]
    /\ UNCHANGED <<call, requests, responses, waits, observations, outcome, pvars>>

HNext == H_parse_fda \/ H_parse_trials \/ H_aggregate

\* -------------------------------------------------------------- fetch clients
\* The phase labels of the multiselect, as strings.
Phase2 == Str(<<30, 2>>)

Phase3 == Str(<<30, 3>>)

\* An optional integer argument: None or a number.
NoLimit == [isNone |-> TRUE, n |-> 0]

Lim(n) == [isNone |-> FALSE, n |-> n]

\* clamp_limit without the lower bound: only values above 100 are changed.
clamp_limit_no_floor(limit) ==
    IF limit.isNone THEN LimitCap
    ELSE IF limit.n > LimitCap THEN LimitCap ELSE limit.n

\* The limit fetch_fda_approvals puts in its URLs: None and non-positive
\* values become 100, values above 100 become 100.
clamp_limit(limit) ==
    LET l1 == IF limit.isNone \/ limit.n <= 0 THEN LimitCap ELSE limit.n
    IN  IF l1 > LimitCap THEN LimitCap ELSE l1

\* The candidate URLs of a client: fetch_fda_approvals has the filtered query
\* and the unfiltered one, fetch_clinical_trials has one; app.py's
\* fetch_fda_approvals has the filtered one only.
urls(client, file) ==
    IF client = "fda"
    THEN (IF file = "app" THEN <<"filtered">> ELSE <<"filtered", "unfiltered">>)
    ELSE <<"study_fields">>

NoException == [kind |-> "None", at |-> 0]

NoOutcome == [kind |-> "none", exc |-> "", cause |-> NoException, value |-> <<>>]

IdleCall ==
    [client |-> "none", file |-> "none", limit_arg |-> NoLimit, limit |-> 0,
     phase |-> Str(<<>>),
     retries |-> 0, backoff |-> 0, url |-> 1, attempt |-> 1, pc |-> "idle",
     last_exception |-> NoException]

\* Entry of fetch_fda_approvals(limit, retries, backoff): the limit is clamped
\* and the loops start at the first URL, attempt 1; range(1, retries + 1) is
\* empty for retries < 1.
fetch_fda_approvals(file, limit, retries, backoff) ==
    [client |-> "fda", file |-> file, limit_arg |-> limit,
     limit |-> clamp_limit(limit),
     phase |-> Str(<<>>), retries |-> retries, backoff |-> backoff,
     url |-> 1, attempt |-> 1,
     pc |-> IF retries >= 1 THEN "loop" ELSE "exhausted",
     last_exception |-> NoException]

\* Entry of fetch_clinical_trials(term, phase, max_studies, retries); the wait
\* base is the literal 1.5, held in tenths.
fetch_clinical_trials(file, phase, max_studies, retries) ==
    [client |-> "ct", file |-> file, limit_arg |-> Lim(max_studies),
     limit |-> max_studies, phase |-> phase,
     retries |-> retries, backoff |-> DefaultBackoff, url |-> 1, attempt |-> 1,
     pc |-> IF retries >= 1 THEN "loop" ELSE "exhausted",
     last_exception |-> NoException]

\* The upstream's answers: status 200 with the expected structure ("ok", with
\* its result list), status 200 with a JSON object lacking the result key
\* ("nokey"), status 200 with a JSON value that is no object ("notobj"), an
\* error status ("non200"), requests.Timeout ("timeout") and another
\* requests.RequestException ("neterr").
Failures == {"non200", "timeout", "neterr"}

Resp(kind, body) == [kind |-> kind, body |-> body]

\* The result lists the approvals API answers with.
FdaBodies ==
    { <<>>,
      << [sponsor_name |-> Acme,
          submissions |-> List(<< Sub(Date_20230115, ORIG), Sub(Date_20230120, ORIG) >>)] >>,
      << [sponsor_name |-> None,
          submissions |-> List(<< Sub(Date_20231345, ORIG), Sub(Date_20230210, None) >>)],
         [sponsor_name |-> Acme, submissions |-> Absent] >>,
      << [sponsor_name |-> Acme, submissions |-> Null] >> }

Trial(id, date) == [NCTId |-> id, Sponsors |-> List(<<Acme>>), CompletionDate |-> date]

\* The StudyFields lists the trial registry answers with.
TrialBodies ==
    { <<>>,
      << Trial(List(<<NCT1>>), List(<<Date_20230115>>)),
         Trial(List(<<NCT1>>), List(<<Date_20230210>>)),
         Trial(Absent, List(<<Date_20230210>>)) >>,
      << Trial(List(<<NCT1>>), List(<<Str(<<>>)>>)),
         Trial(List(<<NCT1>>), List(<<Date_text>>)),
         Trial(List(<<NCT1>>), List(<<Date_20221220>>)) >>,
      << Trial(List(<<NCT1>>), List(<<Date_20230115>>)),
         Trial(List(<<>>), List(<<Date_20230120>>)) >> }

Responses(client) ==
    {Resp(k, <<>>) : k \in Failures \cup {"nokey", "notobj"}}
    \cup {Resp("ok", b) : b \in IF client = "fda" THEN FdaBodies ELSE TrialBodies}

\* next_attempt falling through to the next candidate URL after the first
\* failure, before the retries on the current one.
next_attempt_fallback_first(c) ==
    IF c.url < Len(urls(c.client, c.file))
    THEN [c EXCEPT !.url = @ + 1, !.attempt = 1]
    ELSE IF c.attempt < c.retries THEN [c EXCEPT !.attempt = @ + 1]
         ELSE [c EXCEPT !.pc = "exhausted"]

\* next_attempt without the fall through to the next candidate URL.
next_attempt_no_fallback(c) ==
    IF c.attempt < c.retries THEN [c EXCEPT !.attempt = @ + 1]
    ELSE [c EXCEPT !.pc = "exhausted"]

\* The loop position after a failed attempt: the next attempt on the same URL,
\* else attempt 1 on the next URL, else both loops are over.
next_attempt(c) ==
    IF c.attempt < c.retries THEN [c EXCEPT !.attempt = @ + 1]
    ELSE IF c.url < Len(urls(c.client, c.file))
         THEN [c EXCEPT !.url = @ + 1, !.attempt = 1]
         ELSE [c EXCEPT !.pc = "exhausted"]

\* requests.get(url, ...) of the current loop position.
fetch_request ==
    /\ call.pc = "loop"
    /\ requests' = Append(requests,
           [client |-> call.client, form |-> urls(call.client, call.file)[call.url],
            limit |-> call.limit, phase |-> call.phase, attempt |-> call.attempt])
    /\ call' = [call EXCEPT !.pc = "await"]
    /\ UNCHANGED <<h, responses, waits, observations, outcome, pvars>>

\* The exception a failed attempt leaves in last_exception.
exception_of(kind, at) ==
    [kind |-> CASE kind = "non200" -> "HTTPError"
                [] kind = "timeout" -> "Timeout"
                [] OTHER -> "RequestException",
     at |-> at]

\* The st.* call a failed attempt makes: app_patched.py reports a network error
\* with st.error and the rest with st.warning; pharma_dashboard_v1.py has one
\* handler for every RequestException, which warns.
notice_level(file, kind) ==
    IF file = "patched" /\ kind = "neterr" THEN "error" ELSE "warning"

\* retry_after whose wait in pharma_dashboard_v1.py does not grow with the
\* attempt number.
retry_after_v1_flat_wait(r) ==
    /\ observations' = Append(observations,
           [level |-> notice_level(call.file, r.kind), attempt |-> call.attempt])
    /\ waits' = Append(waits, [base |-> call.backoff,
                               exp |-> IF call.file = "v1" THEN 1 ELSE call.attempt])
    /\ call' = [next_attempt(call) EXCEPT
                   !.pc = IF next_attempt(call).pc = "exhausted" THEN "exhausted" ELSE "loop",
                   !.last_exception = exception_of(r.kind, Len(requests))]
    /\ UNCHANGED outcome

\* retry_after that waits only when another attempt follows.
retry_after_no_final_wait(r) ==
    /\ observations' = Append(observations,
           [level |-> notice_level(call.file, r.kind), attempt |-> call.attempt])
    /\ waits' = IF next_attempt(call).pc = "exhausted" THEN waits
                ELSE Append(waits, [base |-> call.backoff, exp |-> call.attempt])
    /\ call' = [next_attempt(call) EXCEPT
                   !.pc = IF next_attempt(call).pc = "exhausted" THEN "exhausted" ELSE "loop",
                   !.last_exception = exception_of(r.kind, Len(requests))]
    /\ UNCHANGED outcome

\* retry_after keeping the first exception of the call in last_exception.
retry_after_keeps_first(r) ==
    /\ observations' = Append(observations,
           [level |-> notice_level(call.file, r.kind), attempt |-> call.attempt])
    /\ waits' = Append(waits, [base |-> call.backoff, exp |-> call.attempt])
    /\ call' = [next_attempt(call) EXCEPT
                   !.pc = IF next_attempt(call).pc = "exhausted" THEN "exhausted" ELSE "loop",
                   !.last_exception = IF call.last_exception = NoException
                                      THEN exception_of(r.kind, Len(requests))
                                      ELSE call.last_exception]
    /\ UNCHANGED outcome

\* A failed attempt of either retrying client: notice, wait backoff ** attempt,
\* remember the exception, go on with the loop.
retry_after(r) ==
    /\ observations' = Append(observations,
           [level |-> notice_level(call.file, r.kind), attempt |-> call.attempt])
    /\ waits' = Append(waits, [base |-> call.backoff, exp |-> call.attempt])
    /\ call' = [next_attempt(call) EXCEPT
                   !.pc = IF next_attempt(call).pc = "exhausted" THEN "exhausted" ELSE "loop",
                   !.last_exception = exception_of(r.kind, Len(requests))]
    /\ UNCHANGED outcome

\* returns without leaving the loop: the result is stored and the loop goes on.
returns_without_return(value) ==
    /\ outcome' = [kind |-> "return", exc |-> "", cause |-> NoException, value |-> value]
    /\ call' = [call EXCEPT !.pc = "loop"]
    /\ UNCHANGED <<waits, observations>>

returns(value) ==
    /\ outcome' = [kind |-> "return", exc |-> "", cause |-> NoException, value |-> value]
    /\ call' = [call EXCEPT !.pc = "done"]
    /\ UNCHANGED <<waits, observations>>

raises(exc, cause) ==
    /\ outcome' = [kind |-> "raise", exc |-> exc, cause |-> cause, value |-> <<>>]
    /\ call' = [call EXCEPT !.pc = "done"]
    /\ UNCHANGED <<waits, observations>>

\* The body of the try block of fetch_fda_approvals in app_patched.py and
\* pharma_dashboard_v1.py, on the answer r.
fda_response(r) ==
    /\ call.pc = "await" /\ call.client = "fda" /\ call.file \in {"patched", "v1"}
    /\ responses' = Append(responses, r)
    /\ CASE r.kind \in Failures -> retry_after(r)
         [] r.kind = "ok" -> returns(r.body)
         [] r.kind = "nokey" -> returns(<<>>)
         [] OTHER -> raises("AttributeError", NoException)
    /\ UNCHANGED <<h, requests, pvars>>

\* The body of the try block of fetch_clinical_trials in app_patched.py and
\* pharma_dashboard_v1.py, on the answer r.
ct_response(r) ==
    /\ call.pc = "await" /\ call.client = "ct" /\ call.file \in {"patched", "v1"}
    /\ responses' = Append(responses, r)
    /\ CASE r.kind \in Failures -> retry_after(r)
         [] r.kind = "ok" -> returns(r.body)
         [] r.kind = "nokey" -> raises("KeyError", NoException)
         [] OTHER -> raises("TypeError", NoException)
    /\ UNCHANGED <<h, requests, pvars>>

\* After both loops: raise RuntimeError(...) from last_exception.
fetch_exhausted ==
    /\ call.pc = "exhausted"
    /\ raises("RuntimeError", call.last_exception)
    /\ UNCHANGED <<h, requests, responses, pvars>>

\* ------------------------------------------------- a fetch client called alone
LimitInputs == {NoLimit, Lim(-3), Lim(0), Lim(1), Lim(100), Lim(101)}

FetchInit ==
    /\ h = HIdle
    /\ requests = <<>> /\ responses = <<>> /\ waits = <<>> /\ observations = <<>>
    /\ outcome = NoOutcome
    /\ \E file \in {"patched", "v1"}, retries \in 0..MaxRetries :
          \/ \E limit \in LimitInputs, backoff \in {15, 20} :
                call = fetch_fda_approvals(file, limit, retries, backoff)
          \/ \E ph \in {Phase2, Phase3} :
                call = fetch_clinical_trials(file, ph, MaxStudies, retries)

FetchNext ==
    \/ fetch_request
    \/ \E r \in Responses("fda") : fda_response(r)
    \/ \E r \in Responses("ct") : ct_response(r)
    \/ fetch_exhausted

\* ------------------------------------------------------ the module-level script
\* The fetch functions of app.py: one request, no clamping, no retry.
app_fetch(client, limit, phase) ==
    [client |-> client, file |-> "app", limit_arg |-> Lim(limit), limit |-> limit,
     phase |-> phase, retries |-> 1, backoff |-> 0, url |-> 1, attempt |-> 1,
     pc |-> "loop", last_exception |-> NoException]

\* requests.get, raise_for_status and the subscripts of app.py's fetch
\* functions: every failure leaves the function as the exception it is.
app_response(r) ==
    /\ call.pc = "await" /\ call.file = "app"
    /\ responses' = Append(responses, r)
    /\ CASE r.kind = "non200" -> raises("HTTPError", NoException)
         [] r.kind = "timeout" -> raises("Timeout", NoException)
         [] r.kind = "neterr" -> raises("RequestException", NoException)
         [] r.kind = "ok" -> returns(r.body)
         [] r.kind = "nokey" /\ call.client = "fda" -> returns(<<>>)
         [] r.kind = "nokey" /\ call.client = "ct" -> raises("KeyError", NoException)
         [] r.kind = "notobj" /\ call.client = "fda" -> raises("AttributeError", NoException)
         [] OTHER -> raises("TypeError", NoException)
    /\ UNCHANGED <<h, requests, pvars>>

Retrying == {"patched", "v1"}

new_call(c) ==
    /\ call' = c
    /\ requests' = <<>> /\ responses' = <<>> /\ waits' = <<>> /\ observations' = <<>>
    /\ outcome' = NoOutcome

\* The frame of a finished call is dropped once its result has been taken.
end_call ==
    /\ call' = IdleCall
    /\ requests' = <<>> /\ responses' = <<>> /\ waits' = <<>> /\ observations' = <<>>
    /\ outcome' = NoOutcome

\* What a source's try block comes to: the parse of the returned list, or the
\* exception of the fetch.
source_result(parsed) == IF outcome.kind = "return" THEN parsed ELSE Raised(outcome.exc)

source_record(src, res) ==
    [src |-> src, n_requests |-> Len(requests), returned |-> outcome.kind = "return",
     raw |-> outcome.value, ok |-> res.ok]

Notice(kind, src) == [kind |-> kind, src |-> src]

FDA == Str(<<31>>)

\* fda_raw = fetch_fda_approvals(limit=fda_limit)
P_fetch_fda ==
    /\ ppc = "fda"
    /\ new_call(IF inputs.file = "app"
                THEN app_fetch("fda", inputs.fda_limit, Str(<<>>))
                ELSE fetch_fda_approvals(inputs.file, Lim(inputs.fda_limit),
                                         FdaDefaultRetries, DefaultBackoff))
    /\ ppc' = "fda_wait"
    /\ UNCHANGED <<h, inputs, ph_i, fda_df, trials_dfs, combined, counts, page, fetched>>

\* P_fda_done without the try/except: a failed approvals fetch ends the run.
P_fda_done_no_try ==
    /\ ppc = "fda_wait" /\ call.pc = "done" /\ inputs.file \in Retrying
    /\ LET res == source_result(parse_fda(outcome.value))
       IN  /\ fda_df' = IF res.ok THEN res.df ELSE <<>>
           /\ page' = IF res.ok THEN Append(page, Notice("success", FDA)) ELSE page
           /\ fetched' = Append(fetched, source_record(FDA, res))
           /\ ppc' = IF res.ok THEN "trials" ELSE "crashed"
    /\ ph_i' = 1
    /\ end_call
    /\ UNCHANGED <<h, inputs, trials_dfs, combined, counts>>

\* The try/except around the approvals fetch and parse in app_patched.py and
\* pharma_dashboard_v1.py: success notice and table, or error notice and an
\* empty table.
P_fda_done ==
    /\ ppc = "fda_wait" /\ call.pc = "done" /\ inputs.file \in Retrying
    /\ LET res == source_result(parse_fda(outcome.value))
       IN  /\ fda_df' = IF res.ok THEN res.df ELSE <<>>
           /\ page' = Append(page, Notice(IF res.ok THEN "success" ELSE "error", FDA))
           /\ fetched' = Append(fetched, source_record(FDA, res))
    /\ ppc' = "trials" /\ ph_i' = 1
    /\ end_call
    /\ UNCHANGED <<h,
                   inputs, trials_dfs, combined, counts>>

\* app.py has no try: an exception of the fetch or of the parse ends the run.
A_fda_done ==
    /\ ppc = "fda_wait" /\ call.pc = "done" /\ inputs.file = "app"
    /\ LET res == source_result(parse_fda(outcome.value))
       IN  /\ fda_df' = IF res.ok THEN res.df ELSE <<>>
           /\ ppc' = IF res.ok THEN "trials" ELSE "crashed"
           /\ fetched' = Append(fetched, source_record(FDA, res))
    /\ ph_i' = 1
    /\ end_call
    /\ UNCHANGED <<h,
                   inputs, trials_dfs, combined, counts, page>>

\* for ph in phases: trials_raw = fetch_clinical_trials(term, ph, max_studies=200)
P_fetch_trials ==
    /\ ppc = "trials" /\ ph_i <= Len(inputs.phases)
    /\ new_call(IF inputs.file = "app"
                THEN app_fetch("ct", MaxStudies, inputs.phases[ph_i])
                ELSE fetch_clinical_trials(inputs.file, inputs.phases[ph_i],
                                           MaxStudies, CtDefaultRetries))
    /\ ppc' = "trial_wait"
    /\ UNCHANGED <<h, inputs, ph_i, fda_df, trials_dfs, combined, counts, page, fetched>>

\* The try/except of one phase: the parsed table is appended, or the error is
\* reported; app_patched.py also reports the success, pharma_dashboard_v1.py
\* does not.
P_trial_done ==
    /\ ppc = "trial_wait" /\ call.pc = "done" /\ inputs.file \in Retrying
    /\ LET ph == inputs.phases[ph_i]
           res == source_result(parse_trials(outcome.value, ph))
       IN  /\ trials_dfs' = IF res.ok THEN Append(trials_dfs, res.df) ELSE trials_dfs
           /\ page' = IF ~res.ok THEN Append(page, Notice("error", ph))
                      ELSE IF inputs.file = "patched" THEN Append(page, Notice("success", ph))
                      ELSE page
           /\ fetched' = Append(fetched, source_record(ph, res))
    /\ ppc' = "trials" /\ ph_i' = ph_i + 1
    /\ end_call
    /\ UNCHANGED <<h,
                   inputs, fda_df, combined, counts>>

A_trial_done ==
    /\ ppc = "trial_wait" /\ call.pc = "done" /\ inputs.file = "app"
    /\ LET ph == inputs.phases[ph_i]
           res == source_result(parse_trials(outcome.value, ph))
       IN  /\ trials_dfs' = IF res.ok THEN Append(trials_dfs, res.df) ELSE trials_dfs
           /\ ppc' = IF res.ok THEN "trials" ELSE "crashed"
           /\ fetched' = Append(fetched, source_record(ph, res))
    /\ ph_i' = ph_i + 1
    /\ end_call
    /\ UNCHANGED <<h,
                   inputs, fda_df, combined, counts, page>>

\* P_combine with the trial tables ahead of the approvals table.
P_combine_trials_first ==
    /\ ppc = "trials" /\ ph_i > Len(inputs.phases)
    /\ combined' = with_month(Flatten(trials_dfs) \o fda_df)
    /\ ppc' = "preview"
    /\ UNCHANGED <<h, call, requests, responses, waits, observations, outcome,
                   inputs, ph_i, fda_df, trials_dfs, counts, page, fetched>>

\* trials_df = pd.concat(trials_dfs); combined = pd.concat([fda_df, trials_df])
\* (an empty frame when both are empty); the month column of a non-empty table.
P_combine ==
    /\ ppc = "trials" /\ ph_i > Len(inputs.phases)
    /\ combined' = with_month(fda_df \o Flatten(trials_dfs))
    /\ ppc' = "preview"
    /\ UNCHANGED <<h, call, requests, responses, waits, observations, outcome,
                   inputs, ph_i, fda_df, trials_dfs, counts, page, fetched>>

\* st.subheader("Data Preview"); st.dataframe(combined.head(...))
P_preview ==
    /\ ppc = "preview"
    /\ page' = Append(page, Notice("preview", Str(<<>>)))
    /\ ppc' = "trend"
    /\ UNCHANGED <<h, call, requests, responses, waits, observations, outcome,
                   inputs, ph_i, fda_df, trials_dfs, combined, counts, fetched>>

\* if not combined.empty: the counts and the line chart.
P_plot ==
    /\ ppc = "trend" /\ combined # <<>>
    /\ counts' = monthly_counts(combined)
    /\ page' = Append(page, Notice("chart", Str(<<>>)))
    /\ ppc' = "done"
    /\ UNCHANGED <<h, call, requests, responses, waits, observations, outcome,
                   inputs, ph_i, fda_df, trials_dfs, combined, fetched>>

\* else: st.warning("No data available for the selected filters...")
P_no_data ==
    /\ ppc = "trend" /\ combined = <<>>
    /\ page' = Append(page, Notice("warning", Str(<<>>)))
    /\ ppc' = "done"
    /\ UNCHANGED <<h, call, requests, responses, waits, observations, outcome,
                   inputs, ph_i, fda_df, trials_dfs, combined, counts, fetched>>

\* The multiselect gives the chosen phases in the order they were chosen.
PhaseSelections ==
    {<<>>, <<Phase2>>, <<Phase3>>, <<Phase2, Phase3>>, <<Phase3, Phase2>>}

\* Slider positions, the default and the largest: 50 and 100 in app_patched.py
\* and pharma_dashboard_v1.py, 200 and 500 in app.py.
SliderValues(file) == IF file = "app" THEN {200, 500} ELSE {50, 100}

PIdle ==
    /\ ph_i = 1 /\ fda_df = <<>> /\ trials_dfs = <<>> /\ combined = <<>>
    /\ counts = <<>> /\ page = <<>> /\ fetched = <<>>

CallIdle ==
    /\ call = IdleCall /\ requests = <<>> /\ responses = <<>> /\ waits = <<>>
    /\ observations = <<>> /\ outcome = NoOutcome

Init ==
    /\ h = HIdle
    /\ CallIdle
    /\ PIdle
    /\ ppc = "fda"
    /\ \E file \in {"app", "patched", "v1"}, phases \in PhaseSelections :
          \E lim \in SliderValues(file) :
             inputs = [file |-> file, phases |-> phases, fda_limit |-> lim]

Next ==
    \/ P_fetch_fda
    \/ fetch_request
    \/ \E r \in Responses("fda") : fda_response(r)
    \/ \E r \in Responses("ct") : ct_response(r)
    \/ \E r \in Responses(call.client) : app_response(r)
    \/ fetch_exhausted
    \/ P_fda_done
    \/ A_fda_done
    \/ P_fetch_trials
    \/ P_trial_done
    \/ A_trial_done
    \/ P_combine
    \/ P_preview
    \/ P_plot
    \/ P_no_data

vars == <<h, call, requests, responses, waits, observations, outcome, inputs, ppc,
          ph_i, fda_df, trials_dfs, combined, counts, page, fetched>>

\* The script of one of the three files, run once.
Spec == Init /\ [][Next]_vars

NoRun == inputs = [file |-> "none", phases |-> <<>>, fda_limit |-> 0] /\ ppc = "none" /\ PIdle

InitParse == HInit /\ CallIdle /\ NoRun

\* A normalizer or the aggregation applied to a drawn input.
SpecParse == InitParse /\ [][HNext]_vars

InitFetch == FetchInit /\ NoRun

\* A fetch client of app_patched.py or pharma_dashboard_v1.py called alone.
SpecFetch == InitFetch /\ [][FetchNext]_vars

\* ====================================================================== claims
UrlCount == Len(urls(call.client, call.file))

AllFailed == \A i \in 1..Len(responses) : responses[i].kind \in Failures

Exhausted == outcome.kind = "raise" /\ outcome.exc = "RuntimeError"

\* C1: when every attempt of a call of fetch_fda_approvals (2 URLs) or
\* fetch_clinical_trials (1 URL) fails (error status, timeout or network
\* error, in any mix), the call makes exactly retries * urlCount requests: it
\* never issues more, it has not ended while fewer were answered, and once
\* that many have failed it issues no other and ends with RuntimeError.
C1_Exhaustion ==
    AllFailed =>
       /\ Len(requests) <= call.retries * UrlCount
       /\ (Len(responses) < call.retries * UrlCount => outcome.kind = "none")
       /\ (Len(responses) = call.retries * UrlCount => call.pc \in {"exhausted", "done"})
       /\ (call.pc = "done" =>
              Exhausted /\ Len(requests) = call.retries * UrlCount)

\* C1 witness: the approvals client with retries 3 has made its 6 requests,
\* answered by a mix of the three failures, and has raised RuntimeError.
C1_Witness ==
    /\ call.client = "fda" /\ call.retries = 3 /\ call.pc = "done" /\ Exhausted
    /\ Len(requests) = 6
    /\ \A k \in Failures : \E i \in 1..Len(responses) : responses[i].kind = k

\* C2: when an attempt is answered with status 200, every attempt before it
\* failed, it is the last request of the call, the call has made exactly as
\* many requests as attempts up to it, one wait per failed attempt and none
\* after it, and, the body holding the result structure, the call returns that
\* attempt's result list.
C2_MonotonicRetry ==
    \A k \in 1..Len(responses) :
       responses[k].kind \notin Failures =>
          /\ k = Len(responses) /\ Len(requests) = k /\ Len(waits) = k - 1
          /\ \A i \in 1..(k - 1) : responses[i].kind \in Failures
          /\ call.pc = "done"
          /\ (responses[k].kind = "ok" =>
                 outcome.kind = "return" /\ outcome.value = responses[k].body)

\* C2 witness: retries 3, two failed attempts, the third answered 200 with a
\* non-empty list, which is returned after exactly 3 requests.
C2_Witness ==
    /\ call.retries = 3 /\ Len(requests) = 3 /\ Len(responses) = 3
    /\ responses[1].kind \in Failures /\ responses[2].kind \in Failures
    /\ responses[3].kind = "ok" /\ responses[3].body # <<>>
    /\ outcome.kind = "return" /\ outcome.value = responses[3].body
    /\ Len(waits) = 2

\* C5: every call of a fetch client ends by returning the result list or by
\* raising the exhaustion error (RuntimeError), whatever the upstream answers.
C5_ClosedOutcomes ==
    call.pc = "done" => (outcome.kind = "return" \/ Exhausted)

\* ------------------------------------------------------------------ pipeline
Strip(row) == [f \in DOMAIN row \ {"month"} |-> row[f]]

\* What a source that was fetched contributes: the parse of its returned list
\* when the fetch returned and the parse returned, nothing otherwise.
SourceParse(rec) ==
    IF rec.src = FDA THEN parse_fda(rec.raw) ELSE parse_trials(rec.raw, rec.src)

ContributionOf(rec) ==
    IF rec.returned /\ SourceParse(rec).ok THEN SourceParse(rec).df ELSE <<>>

AfterFetches == ppc \in {"preview", "trend", "done", "crashed"}

\* C3: in app_patched.py and pharma_dashboard_v1.py, whatever each source's
\* outcome, no failure ends the run, every source (the approvals, then each
\* selected phase) has had its fetch attempted with at least one request, and
\* the combined table holds exactly the normalized records of the sources
\* that succeeded, and nothing of the others.
C3_FailureIsolation ==
    inputs.file \in Retrying =>
       /\ ppc # "crashed"
       /\ AfterFetches =>
             /\ [i \in 1..Len(fetched) |-> fetched[i].src] = <<FDA>> \o inputs.phases
             /\ \A i \in 1..Len(fetched) : fetched[i].n_requests >= 1
             /\ [i \in 1..Len(combined) |-> Strip(combined[i])]
                   = Flatten([i \in 1..Len(fetched) |-> ContributionOf(fetched[i])])

\* C3 witness: the approvals fetch has exhausted its 6 attempts, the one
\* selected phase has returned 3 trials, and the combined table holds exactly
\* 3 records, all of ClinicalTrials.gov.
C3_Witness ==
    /\ inputs.file = "patched" /\ ppc = "done" /\ Len(fetched) = 2
    /\ ~fetched[1].returned /\ fetched[1].n_requests = 6
    /\ fetched[2].returned /\ Len(fetched[2].raw) = 3
    /\ Len(combined) = 3
    /\ \A i \in 1..3 : combined[i].source = "ClinicalTrials.gov"

Rendered ==
    \E i \in 1..(Len(page) - 1) :
       page[i].kind = "preview" /\ page[i + 1].kind \in {"chart", "warning"}

NormalizersReturned ==
    \A i \in 1..Len(fetched) : fetched[i].returned => SourceParse(fetched[i]).ok

\* C4: in each of the three files, whatever the outcome of each source fetch
\* (a list, an empty list, an error status, a timeout, exhausted retries), the
\* run does not end before the render step: when it has ended, no normalizer
\* having raised, the page shows the data preview followed by the chart or by
\* the no-data warning.
C4_FinalViewRenders ==
    (ppc \in {"done", "crashed"} /\ NormalizersReturned) => Rendered

\* C7: every record of the approvals table, of the per-phase tables and of
\* the combined table has a valid calendar date, never NaT, the month of a
\* combined record is the month of its date, and every month of the counts is
\* a calendar month.
C7_ValidDates ==
    /\ \A i \in 1..Len(fda_df) : ValidDate(fda_df[i].date)
    /\ \A k \in 1..Len(trials_dfs) :
          \A i \in 1..Len(trials_dfs[k]) : ValidDate(trials_dfs[k][i].date)
    /\ \A i \in 1..Len(combined) :
          /\ ValidDate(combined[i].date) /\ combined[i].date # NaT
          /\ combined[i].month.y = combined[i].date.y
          /\ combined[i].month.m = combined[i].date.m
    /\ \A i \in 1..Len(counts) : counts[i].month.y >= 1 /\ counts[i].month.m \in 1..12

HasBadDate(raw) ==
    \E i \in 1..Len(raw) :
       \E j \in 1..Len(raw[i].submissions.items) :
          LET d == raw[i].submissions.items[j].submission_date
          IN  Truthy(d) /\ to_datetime(d) = NaT

\* C7 witness: the approvals fetch returned a list holding a submission whose
\* date does not parse beside one whose date does, and the run has rendered a
\* non-empty combined table.
C7_Witness ==
    /\ inputs.file = "patched" /\ ppc = "done" /\ Len(fetched) >= 1 /\ fetched[1].returned
    /\ HasBadDate(fetched[1].raw)
    /\ Len(fda_df) >= 1 /\ Len(combined) >= 1 /\ Len(counts) >= 1

\* ---------------------------------------------------------------- normalizers
Parsed == h.done /\ h.kind \in {"fda", "trials"}

\* C6: parse_fda and parse_trials return a table for every raw input and
\* never raise.
C6_NormalizersTotal == Parsed => h.res.ok

\* The first element of a multi-valued field as the claim has it: "" for an
\* absent field, null for an empty array or a null field.
ClaimedFirst(f) ==
    IF f.kind = "absent" THEN Str(<<>>)
    ELSE IF f.kind = "list" /\ f.items # <<>> THEN f.items[1]
    ELSE None

Completed(trial) ==
    Truthy(ClaimedFirst(trial.CompletionDate))
    /\ to_datetime(ClaimedFirst(trial.CompletionDate)) # NaT

ExpectedTrials(data, phase) ==
    LET kept == SelectSeq(data, Completed)
    IN  [i \in 1..Len(kept) |->
            [source |-> "ClinicalTrials.gov",
             sponsor |-> ClaimedFirst(kept[i].Sponsors),
             date |-> to_datetime(ClaimedFirst(kept[i].CompletionDate)),
             phase |-> phase, trial_id |-> ClaimedFirst(kept[i].NCTId),
             submission_type |-> None, submission_class |-> None]]

Keyed(data) ==
    \A i \in 1..Len(data) :
       /\ first_exc(data[i].NCTId) = "" /\ first_exc(data[i].Sponsors) = ""
       /\ data[i].CompletionDate.kind # "null"

\* C8: for every raw trial list (here: those whose NCTId and Sponsors have a
\* first element and whose CompletionDate is not null), parse_trials emits exactly one record per trial whose
\* CompletionDate has a non-empty, parseable first element and none for a
\* trial whose CompletionDate is absent, an empty array or an empty string,
\* the other trials' records unaffected.
C8_TrialNormalizer ==
    (h.done /\ h.kind = "trials" /\ Keyed(h.data)) =>
       h.res.ok /\ h.res.df = ExpectedTrials(h.data, h.phase)

Dated(sub) == Truthy(sub.submission_date) /\ to_datetime(sub.submission_date) # NaT

DatedSubs(entry) ==
    IF entry.submissions.kind = "list" THEN SelectSeq(entry.submissions.items, Dated)
    ELSE <<>>

ExpectedApprovals(data) ==
    Flatten([i \in 1..Len(data) |->
               [j \in 1..Len(DatedSubs(data[i])) |->
                   [source |-> "FDA", sponsor |-> data[i].sponsor_name,
                    date |-> to_datetime(DatedSubs(data[i])[j].submission_date),
                    phase |-> None, trial_id |-> None,
                    submission_type |-> DatedSubs(data[i])[j].submission_type,
                    submission_class |-> DatedSubs(data[i])[j].submission_class_code]]])

ListedSubmissions(data) ==
    \A i \in 1..Len(data) : data[i].submissions.kind \in {"absent", "list"}

\* C9: parse_fda returns for every raw approval list whose entries carry a
\* submissions list or none, and what it returns is exactly one record per
\* nested submission with a non-empty, parseable submission_date, in
\* entry-then-submission order, the sponsor that of the parent entry, source
\* FDA, phase and trial_id null; an entry without such a submission
\* contributes no record.
C9_ApprovalNormalizer ==
    (h.done /\ h.kind = "fda") =>
       /\ (ListedSubmissions(h.data) => h.res.ok)
       /\ (h.res.ok => h.res.df = ExpectedApprovals(h.data))

\* C9 witness: sponsor Acme with one submission dated 20230115 of type ORIG
\* has given exactly one record with that sponsor, date and type.
C9_Witness ==
    /\ h.done /\ h.kind = "fda"
    /\ h.data = << [sponsor_name |-> Acme,
                    submissions |-> List(<< Sub(Date_20230115, ORIG) >>)] >>
    /\ h.res.ok
    /\ h.res.df = << [source |-> "FDA", sponsor |-> Acme,
                      date |-> [y |-> 2023, m |-> 1, d |-> 15],
                      phase |-> None, trial_id |-> None,
                      submission_type |-> ORIG, submission_class |-> None] >>

\* ---------------------------------------------------------------- aggregation
Aggregated == h.done /\ h.kind = "agg"

Bucket(row) == [y |-> row.date.y, m |-> row.date.m]

BucketsOf(df) == {Bucket(df[i]) : i \in 1..Len(df)}

SourcesOf(df) == {df[i].source : i \in 1..Len(df)}

InBucket(df, b, src) ==
    Cardinality({i \in 1..Len(df) : Bucket(df[i]) = b /\ df[i].source = src})

EntriesAt(c, b, src) == {k \in 1..Len(c) : c[k].month = b /\ c[k].source = src}

RECURSIVE SumN(_)
SumN(c) == IF c = <<>> THEN 0 ELSE Head(c).n + SumN(Tail(c))

Earlier(a, b) == a.y < b.y \/ (a.y = b.y /\ a.m <= b.m)

\* What every reading of the monthly table shares: each entry is the number
\* of records of its month bucket and source, no pair has two entries, months
\* ascend, the counts sum to the number of combined records, and an empty
\* combined table gives no counts and the no-data warning, without failing.
CountsSound(df, a) ==
    /\ \A k \in 1..Len(a.counts) :
          /\ a.counts[k].n = InBucket(df, a.counts[k].month, a.counts[k].source)
          /\ Cardinality(EntriesAt(a.counts, a.counts[k].month, a.counts[k].source)) = 1
    /\ \A k \in 1..(Len(a.counts) - 1) : Earlier(a.counts[k].month, a.counts[k + 1].month)
    /\ SumN(a.counts) = Len(df)
    /\ (df = <<>> => a.counts = <<>> /\ a.view = "warning")
    /\ (df # <<>> => a.view = "chart")

\* C10 as stated: the table of monthly counts has exactly one entry per
\* (month, source) pair that has at least one record, and none for a pair
\* with zero records.
C10_NoZeroFill ==
    Aggregated =>
       /\ CountsSound(h.data, h.agg)
       /\ \A b \in BucketsOf(h.data), src \in SourcesOf(h.data) :
             Cardinality(EntriesAt(h.agg.counts, b, src))
                = IF InBucket(h.data, b, src) > 0 THEN 1 ELSE 0
       /\ \A k \in 1..Len(h.agg.counts) : h.agg.counts[k].n > 0

\* C10 amended: the table of monthly counts has one row per month with at
\* least one record and one column per source with at least one record; the
\* entry of every such (month, source) pair is the number of records of that
\* month bucket and source, 0 for a pair with none; months ascend; the counts
\* sum to the number of combined records; an empty combined table gives no
\* counts and the no-data warning.
C10_MonthlyCounts ==
    Aggregated =>
       /\ CountsSound(h.data, h.agg)
       /\ \A b \in BucketsOf(h.data), src \in SourcesOf(h.data) :
             Cardinality(EntriesAt(h.agg.counts, b, src)) = 1
       /\ \A k \in 1..Len(h.agg.counts) :
             /\ h.agg.counts[k].month \in BucketsOf(h.data)
             /\ h.agg.counts[k].source \in SourcesOf(h.data)

Jan2023 == [y |-> 2023, m |-> 1]

Feb2023 == [y |-> 2023, m |-> 2]

\* C10 witness: 2023-01 with 2 approvals and 1 trial and 2023-02 with 2
\* trials has given the counts 1, 2 for 2023-01 and 2, 0 for 2023-02.
C10_Witness ==
    /\ Aggregated
    /\ Len(h.data) = 5
    /\ InBucket(h.data, Jan2023, "FDA") = 2
    /\ InBucket(h.data, Jan2023, "ClinicalTrials.gov") = 1
    /\ InBucket(h.data, Feb2023, "ClinicalTrials.gov") = 2
    /\ h.agg.counts =
          << [month |-> Jan2023, source |-> "ClinicalTrials.gov", n |-> 1],
             [month |-> Jan2023, source |-> "FDA", n |-> 2],
             [month |-> Feb2023, source |-> "ClinicalTrials.gov", n |-> 2],
             [month |-> Feb2023, source |-> "FDA", n |-> 0] >>

\* ------------------------------------------------------------- fetch contract
InRange(l) == ~l.isNone /\ l.n \in 1..LimitCap

\* C11: in a call of fetch_fda_approvals with any requested limit (an integer
\* or None), the limit of every request URL lies in 1..100 and equals the
\* requested limit when that is in 1..100; whatever the limit, the call with
\* retries >= 1 starts its request loop: before its first request it has not
\* ended.
C11_LimitClamp ==
    call.client = "fda" =>
       /\ \A i \in 1..Len(requests) :
             /\ requests[i].limit \in 1..LimitCap
             /\ (InRange(call.limit_arg) => requests[i].limit = call.limit_arg.n)
       /\ ((call.retries >= 1 /\ requests = <<>>) =>
              call.pc = "loop" /\ outcome.kind = "none")

\* C11 witness: a call with the limit -3 has sent both URLs with limit 100 and
\* has ended on an answer, not on the limit.
C11_Witness ==
    /\ call.client = "fda" /\ call.limit_arg = Lim(-3) /\ call.pc = "done"
    /\ Len(requests) >= 2
    /\ requests[1].form = "filtered" /\ requests[1].limit = LimitCap
    /\ requests[Len(requests)].form = "unfiltered"
    /\ requests[Len(requests)].limit = LimitCap

Primary(i) == requests[i].form = "filtered"

Secondary(i) == requests[i].form = "unfiltered"

FailedAt(i) == i <= Len(responses) /\ responses[i].kind \in Failures

\* C12: in a call of fetch_fda_approvals, the unfiltered URL is requested only
\* after the filtered URL has been requested exactly `retries` times and each
\* of those attempts failed; the unfiltered URL gets attempts 1..retries of its
\* own and no more; no filtered request follows an unfiltered one; and when a
\* filtered request is answered by status 200 no unfiltered request is made.
C12_FallbackOrder ==
    call.client = "fda" =>
       \A i \in 1..Len(requests) :
          /\ Primary(i) \/ Secondary(i)
          /\ Primary(i) => i <= call.retries /\ requests[i].attempt = i
          /\ Secondary(i) =>
                /\ i > call.retries /\ i <= 2 * call.retries
                /\ requests[i].attempt = i - call.retries
                /\ \A j \in 1..call.retries : Primary(j) /\ FailedAt(j)
                /\ \A j \in i..Len(requests) : Secondary(j)
          /\ (Primary(i) /\ i <= Len(responses) /\ ~FailedAt(i)) =>
                \A j \in 1..Len(requests) : Primary(j)

\* C12 witness: with retries 2 the filtered URL failed twice, the unfiltered
\* URL failed once and then answered, four requests in all.
C12_Witness ==
    /\ call.client = "fda" /\ call.retries = 2 /\ call.pc = "done"
    /\ Len(requests) = 4
    /\ Primary(1) /\ Primary(2) /\ Secondary(3) /\ Secondary(4)
    /\ FailedAt(1) /\ FailedAt(2) /\ FailedAt(3)
    /\ outcome.kind = "return"

\* The exception class of a failed attempt: requests.HTTPError for an error
\* status, requests.Timeout, or another requests.RequestException.
FailureClass(kind) ==
    CASE kind = "non200" -> "HTTPError"
      [] kind = "timeout" -> "Timeout"
      [] kind = "neterr" -> "RequestException"

\* C13: when a call of fetch_fda_approvals or fetch_clinical_trials has ended
\* with the exhaustion error, every attempt failed and the cause of the error
\* is the failure of the last request made (the final attempt on the last
\* candidate URL), whatever the mix of failures; with no attempt made
\* (retries < 1) the error has no cause.
C13_ExhaustionCause ==
    (call.pc = "done" /\ Exhausted) =>
       LET n == Len(requests)
       IN  /\ Len(responses) = n /\ AllFailed
           /\ n = 0 => outcome.cause = NoException
           /\ n > 0 =>
                 /\ requests[n].attempt = call.retries
                 /\ requests[n].form = urls(call.client, call.file)[UrlCount]
                 /\ outcome.cause.at = n
                 /\ outcome.cause.kind = FailureClass(responses[n].kind)

\* C13 witness: the approvals client with retries 2 saw a network error, a
\* timeout, a timeout and last an error status, and its RuntimeError is caused
\* by the HTTPError of the fourth request.
C13_Witness ==
    /\ call.client = "fda" /\ call.retries = 2 /\ call.pc = "done" /\ Exhausted
    /\ Len(responses) = 4
    /\ responses[1].kind = "neterr" /\ responses[2].kind = "timeout"
    /\ responses[3].kind = "timeout" /\ responses[4].kind = "non200"
    /\ outcome.cause = [kind |-> "HTTPError", at |-> 4]

\* ------------------------------------------------------------ pipeline order
SourceOrder == <<FDA>> \o inputs.phases

InFlight == Len(requests) - Len(responses)

Combined == ppc \in {"preview", "trend", "done"}

\* C14: the run is sequential. The sources finished so far are a prefix of
\* the approvals followed by the phases in the selected order; every request
\* of the running fetch is for the next source of that order, so a trial
\* request is issued only after the approvals fetch has finished and a phase's
\* request only after the phase before it has finished; at most one request
\* is unanswered at any moment; and the combined table is the approvals
\* records followed by the records of each phase that succeeded, in the
\* selected order.
C14_SequentialOrder ==
    /\ Len(fetched) <= Len(SourceOrder)
    /\ \A i \in 1..Len(fetched) : fetched[i].src = SourceOrder[i]
    /\ InFlight \in {0, 1}
    /\ call.pc = "await" <=> InFlight = 1
    /\ \A i \in 1..Len(requests) :
          /\ Len(fetched) < Len(SourceOrder)
          /\ requests[i].client = (IF Len(fetched) = 0 THEN "fda" ELSE "ct")
          /\ Len(fetched) >= 1 => requests[i].phase = SourceOrder[Len(fetched) + 1]
    /\ Combined =>
          /\ Len(fetched) = Len(SourceOrder)
          /\ [i \in 1..Len(combined) |-> Strip(combined[i])]
                = Flatten([i \in 1..Len(fetched) |-> ContributionOf(fetched[i])])
          /\ \A i, j \in 1..Len(combined) :
                (i < j /\ combined[j].source = "FDA") => combined[i].source = "FDA"

\* C14 witness: with Phase 3 selected before Phase 2 and all three fetches
\* returning records, the combined table starts with an approval and holds a
\* Phase 3 trial ahead of a Phase 2 trial.
C14_Witness ==
    /\ inputs.file = "patched" /\ inputs.phases = <<Phase3, Phase2>> /\ ppc = "done"
    /\ Len(combined) >= 3 /\ combined[1].source = "FDA"
    /\ \E i, j \in 1..Len(combined) :
          /\ i < j
          /\ combined[i].source = "ClinicalTrials.gov" /\ combined[i].phase = Phase3
          /\ combined[j].source = "ClinicalTrials.gov" /\ combined[j].phase = Phase2

\* ---------------------------------------------------------------- backoff
RECURSIVE Pow(_, _)
Pow(b, k) == IF k = 0 THEN 1 ELSE b * Pow(b, k - 1)

\* The wait w2 = base ** (k + 1) is longer than the wait w1 = base ** k, the
\* bases being held in tenths.
Longer(w2, w1) == Pow(w1.base, w1.exp) * Pow(10, w2.exp) < Pow(w2.base, w2.exp) * Pow(10, w1.exp)

\* The i-th failed attempt of the call is followed by its notice and its wait
\* of backoff ** k, k the attempt number on its URL, before the next request.
WaitsAfterFailures ==
    /\ Len(waits) = Len(observations)
    /\ Len(requests) <= Len(waits) + 1
    /\ \A i \in 1..Len(responses) :
          responses[i].kind \in Failures =>
             /\ i <= Len(waits)
             /\ waits[i] = [base |-> call.backoff, exp |-> requests[i].attempt]
             /\ observations[i].attempt = requests[i].attempt
    /\ \A i \in 1..(Len(waits) - 1) :
          requests[i + 1].form = requests[i].form =>
             /\ waits[i + 1].exp = waits[i].exp + 1
             /\ call.backoff > 10 => Longer(waits[i + 1], waits[i])

\* C15: in both fetch clients every failed attempt, the k-th on its URL, is
\* followed by a warning notice and a wait of backoff ** k before the next
\* request, the waits on one URL growing for a base above 1; and the notice
\* is a warning and the wait the same whether the attempt failed by an error
\* status, a timeout or a network error.
C15_UniformBackoff ==
    /\ WaitsAfterFailures
    /\ \A i \in 1..Len(observations) : observations[i].level = "warning"

\* ------------------------------------------------------------ source reports
IsReport(n) == n.kind \in {"success", "error"}

Reports == SelectSeq(page, IsReport)

\* C16: in app_patched.py and pharma_dashboard_v1.py, at every moment the
\* outcome reports on the page are exactly one per source finished so far, in
\* the order the sources finished, each naming its source and being a success
\* notice when the source succeeded and an error notice when it failed; so
\* each report is on the page before the next source's fetch starts.
C16_OneReportPerSource ==
    inputs.file \in Retrying =>
       /\ Len(Reports) = Len(fetched)
       /\ \A i \in 1..Len(Reports) :
             /\ i <= Len(fetched)
             /\ Reports[i].src = fetched[i].src
             /\ Reports[i].kind = (IF fetched[i].ok THEN "success" ELSE "error")

FailedAttempts == {i \in 1..Len(responses) : responses[i].kind \in Failures}

\* C17: in every call of a fetch client the number of waits equals the number
\* of failed attempts, the wait of a failed attempt being made before anything
\* else follows it; in particular the final attempt on the final URL is
\* followed by a wait of backoff ** retries although no retry follows, and the
\* exhaustion error is raised only after that wait.
C17_WaitAfterEveryFailure ==
    /\ Len(waits) = Cardinality(FailedAttempts)
    /\ (call.pc = "exhausted" \/ Exhausted) /\ call.retries >= 1 =>
          /\ Len(waits) = call.retries * UrlCount
          /\ Len(waits) = Len(requests)
          /\ waits[Len(waits)] = [base |-> call.backoff, exp |-> call.retries]

\* C17 witness: fetch_clinical_trials with retries 2 has failed twice and
\* raised RuntimeError after the waits 1.5 ** 1 and 1.5 ** 2.
C17_Witness ==
    /\ call.client = "ct" /\ call.retries = 2 /\ call.pc = "done" /\ Exhausted
    /\ Len(requests) = 2
    /\ waits = << [base |-> DefaultBackoff, exp |-> 1], [base |-> DefaultBackoff, exp |-> 2] >>

\* ------------------------------------------------- equivalence of the clients
\* What a call does as a function of its parameters (client, limit, phase,
\* retries, backoff) and of the answers so far, with no reference to the file
\* it is in: the i-th request, the i-th wait, and the outcome.
WellFormed == \A i \in 1..Len(responses) : responses[i].kind \in Failures \cup {"ok"}

TotalAttempts == call.retries * (IF call.client = "fda" THEN 2 ELSE 1)

RefAttempt(i) == IF i > call.retries THEN i - call.retries ELSE i

RefRequest(i) ==
    [client |-> call.client,
     form |-> IF call.client = "ct" THEN "study_fields"
              ELSE IF i <= call.retries THEN "filtered" ELSE "unfiltered",
     limit |-> IF call.client = "ct" \/ InRange(call.limit_arg) THEN call.limit_arg.n
               ELSE LimitCap,
     phase |-> call.phase,
     attempt |-> RefAttempt(i)]

RefWait(i) == [base |-> call.backoff, exp |-> RefAttempt(i)]

RefOutcome ==
    LET k == Len(responses)
    IN  IF k > 0 /\ responses[k].kind = "ok"
        THEN [kind |-> "return", exc |-> "", cause |-> NoException,
              value |-> responses[k].body]
        ELSE IF k = TotalAttempts /\ call.pc = "done"
        THEN [kind |-> "raise", exc |-> "RuntimeError",
              cause |-> IF k = 0 THEN NoException
                        ELSE [kind |-> FailureClass(responses[k].kind), at |-> k],
              value |-> <<>>]
        ELSE NoOutcome

\* C18: fetch_fda_approvals and fetch_clinical_trials of app_patched.py and of
\* pharma_dashboard_v1.py do the same on the same parameters and the same
\* answers (status 200 with a list, error status, timeout, network error): in
\* either file the requests issued, the waits made and the outcome are the ones
\* fixed by the parameters and the answers alone, so the two files issue the
\* same requests to the same URLs, make the same waits and end with the same
\* returned list or the same exhaustion error.
C18_ClientsEquivalent ==
    (call.file \in Retrying /\ WellFormed) =>
       LET k == Len(responses)
       IN  /\ Len(requests) \in {k, k + 1} /\ Len(requests) <= TotalAttempts
           /\ call.pc \in {"exhausted", "done"} => Len(requests) = k
           /\ call.pc = "await" <=> Len(requests) = k + 1
           /\ \A i \in 1..Len(requests) : requests[i] = RefRequest(i)
           /\ Len(waits) = Cardinality(FailedAttempts)
           /\ \A i \in 1..Len(waits) : waits[i] = RefWait(i)
           /\ outcome = RefOutcome
           /\ call.pc = "done" <=> outcome.kind # "none"

\* C18 witness: fetch_fda_approvals of pharma_dashboard_v1.py with retries 2
\* saw a timeout, a network error and an error status and then a list, which
\* it returned after 4 requests and 3 waits.
C18_Witness ==
    /\ call.file = "v1" /\ call.client = "fda" /\ call.retries = 2
    /\ Len(responses) = 4
    /\ responses[1].kind = "timeout" /\ responses[2].kind = "neterr"
    /\ responses[3].kind = "non200" /\ responses[4].kind = "ok"
    /\ responses[4].body # <<>>
    /\ outcome.kind = "return" /\ outcome.value = responses[4].body
    /\ Len(requests) = 4 /\ Len(waits) = 3

====
